---- MODULE Spec2Model ----
(***************************************************************************)
(* A model of videasy-dl (src/main.py): an HLS downloader that resolves a  *)
(* playlist, downloads the media segments on a thread pool with per-       *)
(* segment retries, writes them in playlist order to a temporary file,     *)
(* optionally converts a subtitle track, and muxes the result with ffmpeg. *)
(*                                                                         *)
(* Text is a sequence of tokens; NL is the newline character and SP a      *)
(* space.  A URL is a sequence of path tokens, the directory tokens (which *)
(* end in "/") first.                                                      *)
(***************************************************************************)
EXTENDS Integers, Sequences, FiniteSets, TLC

\* ------------------------------------------------------------------------
\* Program constants
\* ------------------------------------------------------------------------
max_workers == 8
max_retries == 3
backoff == 1

\* ------------------------------------------------------------------------
\* Bounds of the model
\* ------------------------------------------------------------------------
\* Number of segments of the large media playlist served by the origin.
NumSegs == 3
\* How many invalid answers in a row the user gives to a prompt at most.
MaxInvalid == 1
\* How many lines a playlist given to the parser alone has at most.
MaxParseLines == 3
\* How many tokens a subtitle text given to the converter alone has at most.
MaxVttLen == 4
\* How many segments the playlist of the pool-only specification has: more
\* than max_workers.
PoolSegs == 9

\* ------------------------------------------------------------------------
\* Text
\* ------------------------------------------------------------------------
NL == "\n"
SP == " "
WS == {NL, SP}

StreamInf == "#EXT-X-STREAM-INF"
ExtMedia == "#EXT-X-MEDIA"
TypeSubs == "TYPE=SUBTITLES"
HashToks == {StreamInf, ExtMedia, "#EXTM3U", "#EXTINF"}
ResToks == {"RESOLUTION=1920x1080", "RESOLUTION=640x360"}
UriToks == {"URI=\"subs/en.vtt\"", "URI=\"subs/de.vtt\""}
DirToks == {"v/", "subs/"}

\* The group captured by RESOLUTION=(\d+x\d+)
ResValue(tok) ==
    CASE tok = "RESOLUTION=1920x1080" -> "1920x1080"
      [] tok = "RESOLUTION=640x360" -> "640x360"

\* The group captured by URI="([^"]+)", as a relative reference
UriValue(tok) ==
    CASE tok = "URI=\"subs/en.vtt\"" -> <<"subs/", "en.vtt">>
      [] tok = "URI=\"subs/de.vtt\"" -> <<"subs/", "de.vtt">>

\* tok in text
Contains(text, tok) == \E k \in 1..Len(text) : text[k] = tok

\* str.startswith
StartsWith(text, tok) == Len(text) > 0 /\ text[1] = tok
StartsWithHash(text) == Len(text) > 0 /\ text[1] \in HashToks

RECURSIVE LStrip(_)
LStrip(text) ==
    IF text # <<>> /\ Head(text) \in WS THEN LStrip(Tail(text)) ELSE text

RECURSIVE RStrip(_)
RStrip(text) ==
    IF text # <<>> /\ text[Len(text)] \in WS
    THEN RStrip(SubSeq(text, 1, Len(text) - 1))
    ELSE text

\* str.strip
Strip(text) == RStrip(LStrip(text))

\* str.splitlines: a line ends at NL; a last line without NL counts when it
\* is not empty.
RECURSIVE SplitLinesFrom(_, _, _)
SplitLinesFrom(text, k, cur) ==
    IF k > Len(text)
    THEN IF cur = <<>> THEN <<>> ELSE <<cur>>
    ELSE IF text[k] = NL
         THEN <<cur>> \o SplitLinesFrom(text, k + 1, <<>>)
         ELSE SplitLinesFrom(text, k + 1, Append(cur, text[k]))

SplitLines(text) == SplitLinesFrom(text, 1, <<>>)

\* The first token of the line that is in the set, or "" when there is none
\* (re.search finds the leftmost match).
RECURSIVE FirstIn(_, _)
FirstIn(line, toks) ==
    IF line = <<>> THEN ""
    ELSE IF Head(line) \in toks THEN Head(line) ELSE FirstIn(Tail(line), toks)

\* ------------------------------------------------------------------------
\* URLs
\* ------------------------------------------------------------------------
\* The directory of a URL: everything up to its last directory token.
RECURSIVE DirOf(_)
DirOf(url) ==
    IF url = <<>> THEN <<>>
    ELSE IF url[Len(url)] \in DirToks THEN url
         ELSE DirOf(SubSeq(url, 1, Len(url) - 1))

\* urllib.parse.urljoin for relative references: an empty reference is the
\* base, a fragment is appended to the base, a relative path replaces the
\* last path component of the base.
urljoin(base, ref) ==
    IF ref = <<>> THEN base
    ELSE IF StartsWithHash(ref) THEN base \o ref
         ELSE DirOf(base) \o ref

\* ------------------------------------------------------------------------
\* Playlist parser
\* ------------------------------------------------------------------------
is_master_playlist(m3u8_content) == Contains(m3u8_content, StreamInf)

Resolution(line) ==
    IF FirstIn(line, ResToks) = "" THEN "Unknown resolution"
    ELSE ResValue(FirstIn(line, ResToks))

\* list_playlists raises IndexError when a variant marker is the last line.
list_playlists_raises(m3u8_content) ==
    LET lines == SplitLines(Strip(m3u8_content))
    IN  Len(lines) > 0 /\ StartsWith(lines[Len(lines)], StreamInf)

RECURSIVE list_playlists_from(_, _, _)
list_playlists_from(lines, base_url, i) ==
    IF i > Len(lines) THEN <<>>
    ELSE (IF StartsWith(lines[i], StreamInf) /\ i < Len(lines)
          THEN << <<Resolution(lines[i]), urljoin(base_url, Strip(lines[i + 1]))>> >>
          ELSE <<>>)
         \o list_playlists_from(lines, base_url, i + 1)

\* A sequence of <<resolution, playlist url>>
list_playlists(m3u8_content, base_url) ==
    list_playlists_from(SplitLines(Strip(m3u8_content)), base_url, 1)

RECURSIVE parse_segments_from(_, _)
parse_segments_from(lines, base_url) ==
    IF lines = <<>> THEN <<>>
    ELSE (IF ~StartsWithHash(Head(lines)) /\ Strip(Head(lines)) # <<>>
          THEN <<urljoin(base_url, Strip(Head(lines)))>>
          ELSE <<>>)
         \o parse_segments_from(Tail(lines), base_url)

parse_segments(m3u8_content, base_url) ==
    parse_segments_from(SplitLines(m3u8_content), base_url)

RECURSIVE find_subtitles_from(_, _)
find_subtitles_from(lines, base_url) ==
    IF lines = <<>> THEN <<>>
    ELSE (IF /\ StartsWith(Head(lines), ExtMedia)
             /\ Contains(Head(lines), TypeSubs)
             /\ FirstIn(Head(lines), UriToks) # ""
          THEN <<urljoin(base_url, UriValue(FirstIn(Head(lines), UriToks)))>>
          ELSE <<>>)
         \o find_subtitles_from(Tail(lines), base_url)

find_subtitles(m3u8_content, base_url) ==
    find_subtitles_from(SplitLines(m3u8_content), base_url)

\* ------------------------------------------------------------------------
\* Subtitle converter
\* ------------------------------------------------------------------------
CR == "\r"
Arrow == "-->"
WebVtt == "WEBVTT"

\* str.replace(tok, "")
RECURSIVE Remove(_, _)
Remove(text, tok) ==
    IF text = <<>> THEN <<>>
    ELSE IF Head(text) = tok THEN Remove(Tail(text), tok)
         ELSE <<Head(text)>> \o Remove(Tail(text), tok)

\* str.replace("WEBVTT\n", "")
RECURSIVE RemoveHeader(_)
RemoveHeader(text) ==
    IF text = <<>> THEN <<>>
    ELSE IF Len(text) >= 2 /\ text[1] = WebVtt /\ text[2] = NL
         THEN RemoveHeader(SubSeq(text, 3, Len(text)))
         ELSE <<Head(text)>> \o RemoveHeader(Tail(text))

\* str.split("\n\n")
RECURSIVE SplitBlocksFrom(_, _, _)
SplitBlocksFrom(text, k, cur) ==
    IF k > Len(text) THEN <<cur>>
    ELSE IF text[k] = NL /\ k < Len(text) /\ text[k + 1] = NL
         THEN <<cur>> \o SplitBlocksFrom(text, k + 2, <<>>)
         ELSE SplitBlocksFrom(text, k + 1, Append(cur, text[k]))

\* sep.join(parts)
RECURSIVE Join(_, _)
Join(parts, sep) ==
    IF parts = <<>> THEN <<>>
    ELSE IF Len(parts) = 1 THEN parts[1]
         ELSE parts[1] \o sep \o Join(Tail(parts), sep)

\* The loop of vtt_to_srt over the blocks: the list srt
RECURSIVE vtt_blocks(_, _)
vtt_blocks(blocks, counter) ==
    IF blocks = <<>> THEN <<>>
    ELSE LET lines == SplitLines(Strip(Head(blocks)))
         IN  IF lines = <<>> THEN vtt_blocks(Tail(blocks), counter)
             ELSE IF Contains(lines[1], Arrow)
                  THEN <<Join(<< <<ToString(counter)>> >> \o lines, <<NL>>)>>
                       \o vtt_blocks(Tail(blocks), counter + 1)
                  ELSE <<Join(lines, <<NL>>)>>
                       \o vtt_blocks(Tail(blocks), counter)

vtt_to_srt(vtt_text) ==
    Strip(RemoveHeader(Join(
        vtt_blocks(SplitBlocksFrom(Remove(vtt_text, CR), 1, <<>>), 1),
        <<NL, NL>>)))

\* ------------------------------------------------------------------------
\* The origin server: what session.get returns for each URL when the
\* request succeeds
\* ------------------------------------------------------------------------
MasterUrl == <<"master.m3u8">>
NoVariantUrl == <<"novariant.m3u8">>
HiUrl == <<"v/", "hi.m3u8">>
LoUrl == <<"v/", "lo.m3u8">>
EmptyUrl == <<"v/", "empty.m3u8">>
SubUrl == <<"subs/", "en.vtt">>

\* Two subtitle tracks and two variants, the second without a resolution
MasterText ==
    <<"#EXTM3U", NL,
      ExtMedia, TypeSubs, "URI=\"subs/en.vtt\"", NL,
      ExtMedia, TypeSubs, "URI=\"subs/de.vtt\"", NL,
      StreamInf, "RESOLUTION=1920x1080", NL,
      "v/", "hi.m3u8", NL,
      StreamInf, NL,
      "v/", "lo.m3u8", NL>>

\* The variant marker is indented: the text contains it, no line starts
\* with it
NoVariantText ==
    <<"#EXTM3U", NL,
      SP, StreamInf, "RESOLUTION=640x360", NL,
      "v/", "lo.m3u8", NL>>

SegTok(i) == "seg" \o ToString(i) \o ".ts"

RECURSIVE MediaLines(_, _)
MediaLines(i, n) ==
    IF i > n THEN <<>>
    ELSE <<"#EXTINF", NL, SegTok(i), NL>> \o MediaLines(i + 1, n)

MediaText(n) == <<"#EXTM3U", NL>> \o MediaLines(1, n)

SubText ==
    <<WebVtt, NL, NL,
      "00:01", SP, Arrow, SP, "00:02", NL, "Hello", NL, NL,
      "00:03", SP, Arrow, SP, "00:04", NL, "World", NL>>

PlaylistUrls == {MasterUrl, NoVariantUrl, HiUrl, LoUrl, EmptyUrl}

\* r.text of a successful playlist or subtitle request
Served(url) ==
    CASE url = MasterUrl -> MasterText
      [] url = NoVariantUrl -> NoVariantText
      [] url = HiUrl -> MediaText(NumSegs)
      [] url = LoUrl -> MediaText(1)
      [] url = EmptyUrl -> MediaText(0)
      [] url = SubUrl -> SubText

TextUrls == PlaylistUrls \cup {SubUrl}

\* r.content of the successful request that attempt number attempt makes
\* for segment number i: two bytes
Content(i, attempt) == << <<i, attempt, 1>>, <<i, attempt, 2>> >>

\* ------------------------------------------------------------------------
\* User input
\* ------------------------------------------------------------------------
\* What the user passes or types as the playlist URL
UserUrls == {MasterUrl, NoVariantUrl, HiUrl, EmptyUrl}
\* What the user passes or types as the output file name
OutNames == {<<"myvideo">>, <<"clip", ".", "mkv">>}
\* What the user types at the file name prompt
TypedNames == {<<SP>>, <<"myvideo", SP>>}
\* sys.argv[1:]
ArgvSet ==
    {<<>>} \cup {<<u>> : u \in UserUrls}
           \cup {<<u, n>> : u \in {MasterUrl}, n \in OutNames}
\* What the user types at a resolution prompt, by what str.isdigit and int
\* make of it: something that is no string of digits; a string of digits
\* that are not decimal, such as a superscript two, for which int raises
\* ValueError; a string of decimal digits with its value
Choices(count) ==
    {[isdigit |-> FALSE, isdecimal |-> FALSE, int |-> 0],
     [isdigit |-> TRUE, isdecimal |-> FALSE, int |-> 0]}
        \cup {[isdigit |-> TRUE, isdecimal |-> TRUE, int |-> v] :
                  v \in 0..(count + 1)}

Mp4 == <<".", "mp4">>
DefaultName == <<"video">> \o Mp4

\* ------------------------------------------------------------------------
\* State
\* ------------------------------------------------------------------------
VARIABLES
    argv,                   \* sys.argv[1:]
    pc,                     \* where the main thread is
    error,                  \* the exception that ended the run, or <<>>
    invalid,                \* how many times the current prompt was repeated
    gui_url,                \* get_user_input: m3u8_url
    gui_selected,           \* get_user_input: selected_playlist_url
    m3u8_url,               \* main: m3u8_url
    output_file,            \* main: output_file
    master_content,         \* master_content of the running function
    playlists,              \* playlists of the running function
    subtitle_urls,          \* main: subtitle_urls
    selected_playlist_url,  \* main: selected_playlist_url
    segments,               \* main: segments
    temp_ts,                \* the file temp_ts: "none", "exists", "removed"
    sub_file,               \* the file sub_file: "none", "exists", "removed"
    vtt_text,               \* main: vtt_text
    srt_text,               \* main: srt_text, what was written to sub_file
    f,                      \* the bytes written to temp_ts
    written,                \* how many f.write calls returned
    job,                    \* per segment: the future and its worker
    lock,                   \* the segment whose worker holds lock, or 0
    progress,               \* progress['count']
    reports,                \* the calls of print_progress_bar
    cancel_next,            \* the future that executor.map cancels next
    ffmpeg,                 \* the os.system calls: the input files
    output                  \* the final file: "none" or "written"

FlowVars ==
    <<argv, invalid, gui_url, gui_selected, m3u8_url, output_file,
      master_content, playlists, subtitle_urls, selected_playlist_url>>
PoolVars == <<job, lock, progress, reports>>
FileVars == <<temp_ts, sub_file, vtt_text, srt_text, ffmpeg, output>>
vars ==
    <<argv, pc, error, invalid, gui_url, gui_selected, m3u8_url, output_file,
      master_content, playlists, subtitle_urls, selected_playlist_url,
      segments, temp_ts, sub_file, vtt_text, srt_text, f, written, job, lock,
      progress,
      reports, cancel_next, ffmpeg, output>>

N == Len(segments)

Init ==
    /\ argv \in ArgvSet
    /\ pc = "start"
    /\ error = <<>>
    /\ invalid = 0
    /\ gui_url = <<>>
    /\ gui_selected = <<>>
    /\ m3u8_url = <<>>
    /\ output_file = <<>>
    /\ master_content = <<>>
    /\ playlists = <<>>
    /\ subtitle_urls = <<>>
    /\ selected_playlist_url = <<>>
    /\ segments = <<>>
    /\ temp_ts = "none"
    /\ sub_file = "none"
    /\ vtt_text = <<>>
    /\ srt_text = <<>>
    /\ f = <<>>
    /\ written = 0
    /\ job = <<>>
    /\ lock = 0
    /\ progress = 0
    /\ reports = <<>>
    /\ cancel_next = 0
    /\ ffmpeg = <<>>
    /\ output = "none"

\* ------------------------------------------------------------------------
\* The main thread up to the segment downloads
\* ------------------------------------------------------------------------
\* The future of a submitted download_and_track call and the locals of the
\* worker that runs it
NewJob == [st |-> "pending", attempt |-> 0, failures |-> 0, delays |-> <<>>,
           loaded |-> 0, data |-> <<>>]

\* The default extension is added to a name without a dot
WithExtension(name) == IF Contains(name, ".") THEN name ELSE name \o Mp4

\* The exception propagates out of the main thread
Raise(kind) ==
    /\ pc' = "error"
    /\ error' = kind

\* The check for an empty segment list is missing
StartAcquisitionMutant(playlist_content, base_url) ==
    /\ segments' = parse_segments(playlist_content, base_url)
    /\ temp_ts' = "exists"
    /\ job' = [i \in 1..Len(segments') |-> NewJob]
    /\ pc' = "pool"
    /\ error' = error

\* main from parse_segments to the submission of every segment
StartAcquisition(playlist_content, base_url) ==
    LET segs == parse_segments(playlist_content, base_url)
    IN  /\ segments' = segs
        /\ IF segs = <<>>
           THEN /\ Raise("RuntimeError")
                /\ UNCHANGED <<temp_ts, job>>
           ELSE /\ temp_ts' = "exists"
                /\ job' = [i \in 1..Len(segs) |-> NewJob]
                /\ pc' = "pool"
                /\ error' = error

\* __main__ with arguments
CliStart ==
    /\ pc = "start"
    /\ Len(argv) >= 1
    /\ m3u8_url' = argv[1]
    /\ output_file' = WithExtension(IF Len(argv) > 1 THEN argv[2] ELSE DefaultName)
    /\ pc' = "main_fetch"
    /\ UNCHANGED <<argv, error, invalid, gui_url, gui_selected, master_content,
                   playlists, subtitle_urls, selected_playlist_url, segments,
                   f, written, cancel_next>>
    /\ UNCHANGED <<PoolVars, FileVars>>

\* get_user_input: the URL prompt
InputUrl ==
    /\ pc = "start"
    /\ Len(argv) = 0
    /\ \E typed \in {<<SP>>} \cup {<<SP>> \o u : u \in UserUrls} :
          IF Strip(typed) = <<>>
          THEN /\ invalid < MaxInvalid
               /\ invalid' = invalid + 1
               /\ UNCHANGED <<pc, gui_url>>
          ELSE /\ gui_url' = Strip(typed)
               /\ pc' = "gui_fetch"
               /\ invalid' = 0
    /\ UNCHANGED <<argv, error, gui_selected, m3u8_url, output_file,
                   master_content, playlists, subtitle_urls,
                   selected_playlist_url, segments, f, written, cancel_next>>
    /\ UNCHANGED <<PoolVars, FileVars>>

\* get_user_input: the playlist is fetched and its variants are listed
GuiFetch ==
    /\ pc = "gui_fetch"
    /\ \E ok \in {b \in BOOLEAN : b => gui_url \in TextUrls} :
          IF ~ok
          THEN /\ Raise("HTTPError")
               /\ UNCHANGED <<master_content, playlists, gui_selected>>
          ELSE /\ master_content' = Served(gui_url)
               /\ gui_selected' = gui_url
               /\ IF ~is_master_playlist(Served(gui_url))
                  THEN /\ pc' = "gui_outfile"
                       /\ UNCHANGED <<playlists, error>>
                  ELSE IF list_playlists_raises(Served(gui_url))
                  THEN /\ Raise("IndexError")
                       /\ UNCHANGED playlists
                  ELSE /\ playlists' = list_playlists(Served(gui_url), gui_url)
                       /\ pc' = IF playlists' = <<>> THEN "gui_outfile"
                                ELSE "gui_prompt"
                       /\ UNCHANGED error
    /\ UNCHANGED <<argv, invalid, gui_url, m3u8_url, output_file, subtitle_urls,
                   selected_playlist_url, segments, f, written, cancel_next>>
    /\ UNCHANGED <<PoolVars, FileVars>>

\* The test of both prompt loops calls int(choice) once choice.isdigit()
\* holds
IntRaises(choice) == choice.isdigit /\ ~choice.isdecimal

\* The test of both prompt loops
ValidChoice(choice, count) ==
    choice.isdigit /\ 1 <= choice.int /\ choice.int <= count

\* get_user_input: the resolution prompt
GuiPrompt ==
    /\ pc = "gui_prompt"
    /\ \E choice \in Choices(Len(playlists)) :
          IF IntRaises(choice)
          THEN /\ Raise("ValueError")
               /\ UNCHANGED <<invalid, gui_selected>>
          ELSE IF ValidChoice(choice, Len(playlists))
          THEN /\ gui_selected' = playlists[choice.int][2]
               /\ pc' = "gui_outfile"
               /\ invalid' = 0
               /\ UNCHANGED error
          ELSE /\ invalid < MaxInvalid
               /\ invalid' = invalid + 1
               /\ UNCHANGED <<pc, error, gui_selected>>
    /\ UNCHANGED <<argv, gui_url, m3u8_url, output_file, master_content,
                   playlists, subtitle_urls, selected_playlist_url, segments,
                   f, written, cancel_next>>
    /\ UNCHANGED <<PoolVars, FileVars>>

\* get_user_input: the file name prompt and the return into main
GuiOutfile ==
    /\ pc = "gui_outfile"
    /\ \E typed \in TypedNames :
          output_file' = IF Strip(typed) = <<>> THEN DefaultName
                         ELSE WithExtension(Strip(typed))
    /\ m3u8_url' = gui_selected
    /\ master_content' = <<>>
    /\ playlists' = <<>>
    /\ pc' = "main_fetch"
    /\ UNCHANGED <<argv, error, invalid, gui_url, gui_selected, subtitle_urls,
                   selected_playlist_url, segments, f, written, cancel_next>>
    /\ UNCHANGED <<PoolVars, FileVars>>

\* main: the playlist is fetched; a master playlist leads to the prompt, a
\* media playlist to the downloads
MainFetch ==
    /\ pc = "main_fetch"
    /\ \E ok \in {b \in BOOLEAN : b => m3u8_url \in TextUrls} :
          IF ~ok
          THEN /\ Raise("HTTPError")
               /\ UNCHANGED <<master_content, playlists, subtitle_urls,
                              segments, temp_ts, job>>
          ELSE /\ master_content' = Served(m3u8_url)
               /\ subtitle_urls' = find_subtitles(Served(m3u8_url), m3u8_url)
               /\ IF ~is_master_playlist(Served(m3u8_url))
                  THEN /\ StartAcquisition(Served(m3u8_url), m3u8_url)
                       /\ UNCHANGED playlists
                  ELSE IF list_playlists_raises(Served(m3u8_url))
                  THEN /\ Raise("IndexError")
                       /\ UNCHANGED <<playlists, segments, temp_ts, job>>
                  ELSE /\ playlists' = list_playlists(Served(m3u8_url), m3u8_url)
                       /\ pc' = IF playlists' = <<>> THEN "returned"
                                ELSE "main_prompt"
                       /\ UNCHANGED <<error, segments, temp_ts, job>>
    /\ UNCHANGED <<argv, invalid, gui_url, gui_selected, m3u8_url, output_file,
                   selected_playlist_url, f, written, cancel_next>>
    /\ UNCHANGED <<lock, progress, reports, sub_file, vtt_text, srt_text, ffmpeg,
                   output>>

\* main: the resolution prompt
MainPrompt ==
    /\ pc = "main_prompt"
    /\ \E choice \in Choices(Len(playlists)) :
          IF IntRaises(choice)
          THEN /\ Raise("ValueError")
               /\ UNCHANGED <<invalid, selected_playlist_url>>
          ELSE IF ValidChoice(choice, Len(playlists))
          THEN /\ selected_playlist_url' = playlists[choice.int][2]
               /\ pc' = "main_fetch_playlist"
               /\ invalid' = 0
               /\ UNCHANGED error
          ELSE /\ invalid < MaxInvalid
               /\ invalid' = invalid + 1
               /\ UNCHANGED <<pc, error, selected_playlist_url>>
    /\ UNCHANGED <<argv, gui_url, gui_selected, m3u8_url, output_file,
                   master_content, playlists, subtitle_urls, segments,
                   f, written, cancel_next>>
    /\ UNCHANGED <<PoolVars, FileVars>>

\* main: the selected playlist is fetched and its segments are submitted
MainFetchPlaylist ==
    /\ pc = "main_fetch_playlist"
    /\ \E ok \in {b \in BOOLEAN : b => selected_playlist_url \in TextUrls} :
          IF ~ok
          THEN /\ Raise("HTTPError")
               /\ UNCHANGED <<segments, temp_ts, job>>
          ELSE StartAcquisition(Served(selected_playlist_url),
                                selected_playlist_url)
    /\ UNCHANGED <<argv, invalid, gui_url, gui_selected, m3u8_url, output_file,
                   master_content, playlists, subtitle_urls,
                   selected_playlist_url, f, written, cancel_next>>
    /\ UNCHANGED <<lock, progress, reports, sub_file, vtt_text, srt_text, ffmpeg,
                   output>>

\* ------------------------------------------------------------------------
\* The workers of the ThreadPoolExecutor: download_and_track
\* ------------------------------------------------------------------------
Segs == 1..Len(job)

\* A worker thread is running the call
Running(i) == job[i].st \in {"get", "sleep", "fetched", "locked"}

NumRunning == Cardinality({i \in Segs : Running(i)})

\* The lock is not taken
LockFreeMutant == TRUE

\* with lock: the lock can be taken
LockFree == lock = 0

\* There is a worker thread for every call
WorkerAvailableMutant == TRUE

\* Every submit starts a new worker thread until there are max_workers;
\* after that a call waits in the queue until a worker is idle
WorkerAvailable == NumRunning < max_workers

\* A worker takes the oldest queued call, at most max_workers run
Start(i) ==
    /\ job[i].st = "pending"
    /\ \A j \in 1..(i - 1) : job[j].st # "pending"
    /\ WorkerAvailable
    /\ job' = [job EXCEPT ![i].st = "get", ![i].attempt = 1]
    /\ UNCHANGED <<pc, error, segments, f, written, cancel_next, lock,
                   progress, reports>>
    /\ UNCHANGED <<FlowVars, FileVars>>

\* download_binary_with_retry: the request of this attempt succeeds and
\* r.content is returned
FetchOk(i) ==
    /\ job[i].st = "get"
    /\ job' = [job EXCEPT ![i].st = "fetched",
                          ![i].data = Content(i, job[i].attempt)]
    /\ UNCHANGED <<pc, error, segments, f, written, cancel_next, lock,
                   progress, reports>>
    /\ UNCHANGED <<FlowVars, FileVars>>

\* The exception is raised again one attempt early
LastAttemptMutant(attempt) == attempt = max_retries - 1

\* The attempt after which the exception is raised again
LastAttempt(attempt) == attempt = max_retries

\* The exception of the last attempt is swallowed and None is returned
ReraiseMutant(j) == [j EXCEPT !.st = "fetched", !.failures = @ + 1]

\* The exception of the last attempt is raised again: the future fails
Reraise(j) == [j EXCEPT !.st = "failed", !.failures = @ + 1]

\* The same delay after every failed attempt
BackoffMutant(j) ==
    [j EXCEPT !.st = "sleep", !.failures = @ + 1,
              !.delays = Append(@, backoff)]

\* time.sleep(backoff * attempt)
Backoff(j) ==
    [j EXCEPT !.st = "sleep", !.failures = @ + 1,
              !.delays = Append(@, backoff * j.attempt)]

\* download_binary_with_retry: the request of this attempt fails; the last
\* attempt raises, the others sleep
FetchFail(i) ==
    /\ job[i].st = "get"
    /\ job' = [job EXCEPT ![i] = IF LastAttempt(@.attempt) THEN Reraise(@)
                                 ELSE Backoff(@)]
    /\ UNCHANGED <<pc, error, segments, f, written, cancel_next, lock,
                   progress, reports>>
    /\ UNCHANGED <<FlowVars, FileVars>>

\* download_binary_with_retry: time.sleep returns, the next attempt starts
Wake(i) ==
    /\ job[i].st = "sleep"
    /\ job' = [job EXCEPT ![i].st = "get", ![i].attempt = @ + 1]
    /\ UNCHANGED <<pc, error, segments, f, written, cancel_next, lock,
                   progress, reports>>
    /\ UNCHANGED <<FlowVars, FileVars>>

\* download_and_track: the lock is taken and progress['count'] is read
Acquire(i) ==
    /\ job[i].st = "fetched"
    /\ LockFree
    /\ lock' = i
    /\ job' = [job EXCEPT ![i].st = "locked", ![i].loaded = progress]
    /\ UNCHANGED <<pc, error, segments, f, written, cancel_next, progress,
                   reports>>
    /\ UNCHANGED <<FlowVars, FileVars>>

\* The count is reported one too high
ProgressReportMutant(current, total) == <<current + 1, total>>

\* print_progress_bar
ProgressReport(current, total) == <<current, total>>

\* The counter is advanced by the number of attempts
TrackMutant(i) ==
    /\ job[i].st = "locked"
    /\ progress' = job[i].loaded + job[i].attempt
    /\ reports' = Append(reports, ProgressReport(progress', Len(segments)))
    /\ lock' = 0
    /\ job' = [job EXCEPT ![i].st = "done", ![i].loaded = 0]
    /\ UNCHANGED <<pc, error, segments, f, written, cancel_next>>
    /\ UNCHANGED <<FlowVars, FileVars>>

\* The lock is not released when the with block is left
TrackKeepsLockMutant(i) ==
    /\ job[i].st = "locked"
    /\ progress' = job[i].loaded + 1
    /\ reports' = Append(reports, ProgressReport(progress', Len(segments)))
    /\ lock' = lock
    /\ job' = [job EXCEPT ![i].st = "done", ![i].loaded = 0]
    /\ UNCHANGED <<pc, error, segments, f, written, cancel_next>>
    /\ UNCHANGED <<FlowVars, FileVars>>

\* download_and_track: progress['count'] is stored and reported, the lock
\* is released and the data is returned
Track(i) ==
    /\ job[i].st = "locked"
    /\ progress' = job[i].loaded + 1
    /\ reports' = Append(reports, ProgressReport(progress', Len(segments)))
    /\ lock' = 0
    /\ job' = [job EXCEPT ![i].st = "done", ![i].loaded = 0]
    /\ UNCHANGED <<pc, error, segments, f, written, cancel_next>>
    /\ UNCHANGED <<FlowVars, FileVars>>

\* ------------------------------------------------------------------------
\* The main thread: the loop over executor.map
\* ------------------------------------------------------------------------
\* The results are taken in the reverse of the submission order
NextFutureMutant == Len(segments) - written

\* The future whose result the loop takes next
NextFuture == written + 1

\* The result of the next future is there: f.write(data)
WriteNext ==
    /\ pc = "pool"
    /\ written < Len(segments)
    /\ job[NextFuture].st = "done"
    /\ f' = f \o job[NextFuture].data
    /\ written' = written + 1
    /\ UNCHANGED <<pc, error, segments, cancel_next>>
    /\ UNCHANGED <<FlowVars, PoolVars, FileVars>>

\* The exception of the future is swallowed and the loop goes on
RaiseNextMutant ==
    /\ pc = "pool"
    /\ written < Len(segments)
    /\ job[written + 1].st = "failed"
    /\ written' = written + 1
    /\ UNCHANGED <<pc, error, segments, f, cancel_next>>
    /\ UNCHANGED <<FlowVars, PoolVars, FileVars>>

\* The next future raised: executor.map starts to cancel the futures it has
\* not handed out, the last one first
RaiseNext ==
    /\ pc = "pool"
    /\ written < Len(segments)
    /\ job[NextFuture].st = "failed"
    /\ error' = "RequestException"
    /\ cancel_next' = Len(segments)
    /\ pc' = "cancel"
    /\ UNCHANGED <<segments, f, written>>
    /\ UNCHANGED <<FlowVars, PoolVars, FileVars>>

\* future.cancel() for one future, or the end of that loop: the with block
\* of the executor is left
CancelNext ==
    /\ pc = "cancel"
    /\ IF cancel_next > NextFuture
       THEN /\ job' = IF job[cancel_next].st = "pending"
                      THEN [job EXCEPT ![cancel_next].st = "cancelled"]
                      ELSE job
            /\ cancel_next' = cancel_next - 1
            /\ pc' = pc
       ELSE /\ pc' = "shutdown"
            /\ cancel_next' = 0
            /\ job' = job
    /\ UNCHANGED <<error, segments, f, written, lock, progress, reports>>
    /\ UNCHANGED <<FlowVars, FileVars>>

\* executor.shutdown(wait=True) returns once no worker runs; the file is
\* closed and the exception leaves main
ShutdownJoined ==
    /\ pc = "shutdown"
    /\ NumRunning = 0
    /\ pc' = "error"
    /\ UNCHANGED <<error, segments, f, written, cancel_next>>
    /\ UNCHANGED <<FlowVars, PoolVars, FileVars>>

\* Every result was written: both with blocks are left
PoolExit ==
    /\ pc = "pool"
    /\ written = Len(segments)
    /\ pc' = "subs"
    /\ UNCHANGED <<error, segments, f, written, cancel_next>>
    /\ UNCHANGED <<FlowVars, PoolVars, FileVars>>

\* ------------------------------------------------------------------------
\* The main thread: subtitles, muxing, cleanup
\* ------------------------------------------------------------------------
\* No subtitle track was found
NoSubtitles ==
    /\ pc = "subs"
    /\ subtitle_urls = <<>>
    /\ pc' = "mux"
    /\ UNCHANGED <<error, segments, f, written, cancel_next>>
    /\ UNCHANGED <<FlowVars, PoolVars, FileVars>>

\* The first subtitle track is fetched, converted and written to sub_file
SubFetch ==
    /\ pc = "subs"
    /\ subtitle_urls # <<>>
    /\ \E ok \in {b \in BOOLEAN : b => subtitle_urls[1] \in TextUrls} :
          IF ~ok
          THEN /\ Raise("HTTPError")
               /\ UNCHANGED <<sub_file, vtt_text, srt_text>>
          ELSE /\ vtt_text' = Served(subtitle_urls[1])
               /\ srt_text' = vtt_to_srt(vtt_text')
               /\ sub_file' = "exists"
               /\ pc' = "mux"
               /\ UNCHANGED error
    /\ UNCHANGED <<segments, f, written, cancel_next, temp_ts, ffmpeg, output>>
    /\ UNCHANGED <<FlowVars, PoolVars>>

\* os.system runs ffmpeg, which may fail; its exit status is not looked at
Mux ==
    /\ pc = "mux"
    /\ ffmpeg' = Append(ffmpeg, IF sub_file = "exists"
                                THEN <<"temp_ts", "sub_file">>
                                ELSE <<"temp_ts">>)
    /\ \E ok \in BOOLEAN : output' = IF ok THEN "written" ELSE output
    /\ pc' = "cleanup"
    /\ UNCHANGED <<error, segments, f, written, cancel_next, temp_ts, sub_file,
                   vtt_text, srt_text>>
    /\ UNCHANGED <<FlowVars, PoolVars>>

\* os.remove of the temporary files, main returns
Cleanup ==
    /\ pc = "cleanup"
    /\ temp_ts' = "removed"
    /\ sub_file' = IF sub_file = "exists" THEN "removed" ELSE sub_file
    /\ pc' = "done"
    /\ UNCHANGED <<error, segments, f, written, cancel_next, vtt_text, srt_text,
                   ffmpeg,
                   output>>
    /\ UNCHANGED <<FlowVars, PoolVars>>

\* ------------------------------------------------------------------------
\* Specification
\* ------------------------------------------------------------------------
Next ==
    \/ CliStart
    \/ InputUrl
    \/ GuiFetch
    \/ GuiPrompt
    \/ GuiOutfile
    \/ MainFetch
    \/ MainPrompt
    \/ MainFetchPlaylist
    \/ \E i \in Segs : Start(i)
    \/ \E i \in Segs : FetchOk(i)
    \/ \E i \in Segs : FetchFail(i)
    \/ \E i \in Segs : Wake(i)
    \/ \E i \in Segs : Acquire(i)
    \/ \E i \in Segs : Track(i)
    \/ WriteNext
    \/ RaiseNext
    \/ CancelNext
    \/ ShutdownJoined
    \/ PoolExit
    \/ NoSubtitles
    \/ SubFetch
    \/ Mux
    \/ Cleanup

Spec == Init /\ [][Next]_vars

\* Every thread that can take a step is scheduled at some time, and every
\* request returns or times out
FairSpec == Spec /\ WF_vars(Next)

\* The process has ended
Terminated == pc \in {"done", "returned", "error"}

\* ------------------------------------------------------------------------
\* Properties
\* ------------------------------------------------------------------------
\* What a strictly sequential download of the first k segments writes
RECURSIVE SequentialStream(_)
SequentialStream(k) ==
    IF k = 0 THEN <<>>
    ELSE SequentialStream(k - 1) \o Content(k, job[k].attempt)

Done(i) == job[i].st = "done"
NumDone == Cardinality({i \in Segs : Done(i)})

\* C1: whatever the order in which the downloads complete, the bytes in the
\* output file are the buffers of segments 1, 2, ... in index order, each
\* once and whole; after the pool is left with every segment downloaded the
\* file is what a sequential download writes.
C1_OrderedAssembly ==
    /\ written <= Len(job)
    /\ f = SequentialStream(written)
    /\ pc \in {"subs", "mux", "cleanup", "done"} =>
          /\ Len(segments) > 0
          /\ written = Len(segments)
          /\ f = SequentialStream(Len(segments))

\* All segments of the large playlist were written, the first one after two
\* retries and the last one at once
C1_Witness ==
    /\ pc = "subs"
    /\ written = NumSegs
    /\ job[1].attempt = max_retries
    /\ job[NumSegs].attempt = 1

\* C2: a job makes at most 3 attempts; a failed attempt 1 or 2 leads to a
\* sleep and then the next attempt, only the failure of attempt 3 fails the
\* job; the first success ends the job with the bytes of that attempt; a
\* job that succeeded or failed is never attempted again.
C2_RetryDiscipline ==
    [][\A i \in Segs :
          /\ job'[i].attempt <= max_retries
          /\ job'[i].attempt \in {job[i].attempt, job[i].attempt + 1}
          /\ (job[i].st = "get" /\ job'[i].st = "failed") =>
                job[i].attempt = max_retries /\ job'[i].failures = max_retries
          /\ (job[i].st = "get" /\ job[i].attempt < max_retries) =>
                job'[i].st \in {"get", "fetched", "sleep"}
          /\ job[i].st = "sleep" =>
                \/ job'[i] = job[i]
                \/ job'[i].st = "get" /\ job'[i].attempt = job[i].attempt + 1
          /\ job'[i].st = "fetched" /\ job[i].st # "fetched" =>
                job[i].st = "get" /\ job'[i].data = Content(i, job[i].attempt)
          /\ job[i].st \in {"fetched", "locked", "done"} =>
                /\ job'[i].st \in {"fetched", "locked", "done"}
                /\ job'[i].attempt = job[i].attempt
                /\ job'[i].data = job[i].data
          /\ job[i].st = "failed" => job'[i] = job[i]]_vars

\* One job failed for good and another succeeded at its second attempt
C2_Witness ==
    \E i, j \in Segs :
        /\ job[i].st = "failed"
        /\ job[i].attempt = max_retries
        /\ Done(j)
        /\ job[j].attempt = 2

\* C3: a segment that failed twice and then succeeded is written at its own
\* position in the file, and the progress counter was advanced and reported
\* once for every segment that succeeded, not once per attempt.
C3_ThirdAttemptLands ==
    /\ progress = NumDone
    /\ Len(reports) = NumDone
    /\ \A i \in Segs :
          (Done(i) /\ job[i].failures = 2) =>
              /\ job[i].attempt = 3
              /\ job[i].data = Content(i, 3)
              /\ i <= written =>
                    SubSeq(f, Len(SequentialStream(i - 1)) + 1,
                           Len(SequentialStream(i))) = Content(i, 3)

\* The second segment was written after it had failed twice
C3_Witness ==
    /\ written >= 2
    /\ job[2].failures = 2
    /\ Done(2)

\* C4: once a segment has failed on all 3 attempts, ffmpeg is never run, no
\* subtitle is fetched, no output file is produced, and the run can only
\* end with the error of the segment.
C4_ExhaustionAborts ==
    (\E i \in Segs : job[i].failures = max_retries) =>
        /\ ffmpeg = <<>>
        /\ sub_file = "none"
        /\ srt_text = <<>>
        /\ output = "none"
        /\ pc \in {"pool", "cancel", "shutdown", "error"}
        /\ pc = "error" => error = "RequestException"

\* The run ended with the error although other segments were downloaded and
\* one was written
C4_Witness ==
    /\ pc = "error"
    /\ written >= 1
    /\ \E i, j \in Segs : i < j /\ job[i].st = "failed" /\ Done(j)

\* C5: however the run ends after the temporary files were created, neither
\* temporary file is left behind when the process has ended.
C5_TempFilesRemoved ==
    Terminated => temp_ts # "exists" /\ sub_file # "exists"

NumFetched ==
    Cardinality({i \in Segs : job[i].st \in {"fetched", "locked", "done"}})

\* C6: a progress report is issued only after the bytes of the segment were
\* written to the file: the reported count is at most the number of
\* segments written.
C6_ReportAfterWrite ==
    [][reports' # reports => reports'[Len(reports')][1] <= written']_vars

\* C6, amended: a progress report is issued after the bytes of the segment
\* were fetched and before they are written: every reported count is at
\* most the number of segments fetched, and the number of segments written
\* is at most the count.
C6_ReportAfterFetch ==
    /\ written <= progress
    /\ \A k \in 1..Len(reports) : reports[k][1] <= NumFetched

\* Two segments were reported and none was written yet
C6_Witness ==
    /\ Len(reports) = 2
    /\ written = 0

\* C7: no update of the shared counter is lost: the reported counts are
\* 1, 2, ..., k, where k is the number of segments that succeeded, each
\* with the total N; k is N when every segment succeeded; at most one
\* worker is between the read and the store of the counter.
C7_SerializedCounter ==
    /\ \A k \in 1..Len(reports) : reports[k] = <<k, Len(segments)>>
    /\ Len(reports) = NumDone
    /\ (Segs # {} /\ \A i \in Segs : Done(i)) =>
          reports[Len(reports)] = <<Len(segments), Len(segments)>>
    /\ Cardinality({i \in Segs : job[i].st = "locked"}) <= 1
    /\ lock # 0 => job[lock].st = "locked"

\* A worker waits for the lock that another one holds, after a first report
C7_Witness ==
    /\ Len(reports) >= 1
    /\ \E i, j \in Segs : job[i].st = "locked" /\ job[j].st = "fetched"

\* C8: once a segment has failed for good, no bytes are written to the file
\* any more.
C8_NoWriteAfterFailure ==
    [][(\E i \in Segs : job[i].st = "failed") => f' = f]_vars

\* C8, amended: once the loop over the results has reached the failed
\* segment, no bytes are written any more; what is written after a segment
\* failed for good is a segment before every failed one.
C8_NoWriteAfterAbort ==
    [][/\ pc \in {"cancel", "shutdown", "error"} => f' = f /\ written' = written
       /\ f' # f => \A i \in Segs : job[i].st = "failed" => written' < i]_vars

\* The loop has reached a failed segment after writing another one, while a
\* later download is still running
C8_Witness ==
    /\ pc = "shutdown"
    /\ written >= 1
    /\ job[written + 1].st = "failed"
    /\ \E j \in Segs : j > written + 1 /\ Running(j)

\* C9: a master playlist without variants ends the run with an error.
C9_ZeroVariantsIsError ==
    (is_master_playlist(master_content) /\ playlists = <<>>) => pc = "error"

\* C10: a media playlist without segments ends the run with an error at
\* once: no temporary file was created, no segment was requested, ffmpeg
\* was not run.
C10_NoSegmentsIsError ==
    (/\ segments = <<>>
     /\ pc \notin {"start", "gui_fetch", "gui_prompt", "gui_outfile",
                   "main_fetch", "main_prompt", "main_fetch_playlist",
                   "returned"}) =>
        /\ pc = "error"
        /\ error \in {"HTTPError", "IndexError", "ValueError", "RuntimeError"}
        /\ temp_ts = "none"
        /\ job = <<>>
        /\ f = <<>>
        /\ sub_file = "none"
        /\ ffmpeg = <<>>
        /\ output = "none"

\* The run ended on a media playlist without segments
C10_Witness ==
    /\ pc = "error"
    /\ error = "RuntimeError"
    /\ master_content = MediaText(0)

\* ------------------------------------------------------------------------
\* The playlist parser alone: list_playlists applied to small playlists
\* ------------------------------------------------------------------------
\* The lines the playlists are made of: variant markers with and without a
\* resolution, another tag, two references and an empty line
ParseLines ==
    {<<StreamInf, "RESOLUTION=1920x1080">>, <<StreamInf>>, <<"#EXTINF">>,
     <<"v/", "hi.m3u8">>, <<"v/", "lo.m3u8">>, <<>>}

RECURSIVE TextOfLines(_)
TextOfLines(lines) ==
    IF lines = <<>> THEN <<>>
    ELSE Head(lines) \o <<NL>> \o TextOfLines(Tail(lines))

ParseTexts ==
    {TextOfLines(ls) :
        ls \in UNION {[1..n -> ParseLines] : n \in 0..MaxParseLines}}

InitParse ==
    /\ argv = <<MasterUrl>>
    /\ pc = "parse"
    /\ error = <<>>
    /\ invalid = 0
    /\ gui_url = <<>>
    /\ gui_selected = <<>>
    /\ m3u8_url = MasterUrl
    /\ output_file = DefaultName
    /\ master_content \in ParseTexts
    /\ playlists = <<>>
    /\ subtitle_urls = <<>>
    /\ selected_playlist_url = <<>>
    /\ segments = <<>>
    /\ temp_ts = "none"
    /\ sub_file = "none"
    /\ vtt_text = <<>>
    /\ srt_text = <<>>
    /\ f = <<>>
    /\ written = 0
    /\ job = <<>>
    /\ lock = 0
    /\ progress = 0
    /\ reports = <<>>
    /\ cancel_next = 0
    /\ ffmpeg = <<>>
    /\ output = "none"

\* playlists = list_playlists(master_content, m3u8_url)
ParseVariants ==
    /\ pc = "parse"
    /\ IF list_playlists_raises(master_content)
       THEN /\ Raise("IndexError")
            /\ UNCHANGED playlists
       ELSE /\ playlists' = list_playlists(master_content, m3u8_url)
            /\ pc' = "parsed"
            /\ UNCHANGED error
    /\ UNCHANGED <<argv, invalid, gui_url, gui_selected, m3u8_url, output_file,
                   master_content, subtitle_urls, selected_playlist_url,
                   segments, f, written, cancel_next>>
    /\ UNCHANGED <<PoolVars, FileVars>>

NextParse == ParseVariants

SpecParse == InitParse /\ [][NextParse]_vars

\* Every variant marker of the playlist has a reference somewhere after it
C11_MarkersHaveReference ==
    LET lines == SplitLines(master_content)
    IN  \A i \in 1..Len(lines) :
            StartsWith(lines[i], StreamInf) =>
                \E j \in (i + 1)..Len(lines) :
                    ~StartsWithHash(lines[j]) /\ Strip(lines[j]) # <<>>

\* The first line after line i that is no marker line
C11_NextNonMarker(lines, i) ==
    CHOOSE j \in (i + 1)..Len(lines) :
        /\ ~StartsWithHash(lines[j])
        /\ \A k \in (i + 1)..(j - 1) : StartsWithHash(lines[k])

RECURSIVE C11_VariantsFrom(_, _, _)
C11_VariantsFrom(lines, base_url, i) ==
    IF i > Len(lines) THEN <<>>
    ELSE (IF StartsWith(lines[i], StreamInf)
          THEN << <<Resolution(lines[i]),
                    urljoin(base_url, Strip(lines[C11_NextNonMarker(lines, i)]))>> >>
          ELSE <<>>)
         \o C11_VariantsFrom(lines, base_url, i + 1)

\* C11: for a playlist in which every variant marker has a reference after
\* it, list_playlists returns one entry per variant marker, in order, with
\* the resolution of the marker and the URL of the next line that is no
\* marker line, resolved against the base URL.
C11_NextNonMarkerLine ==
    (pc \in {"parsed", "error"} /\ C11_MarkersHaveReference) =>
        /\ pc = "parsed"
        /\ playlists = C11_VariantsFrom(SplitLines(master_content), m3u8_url, 1)

\* C12: at both resolution prompts an invalid answer leads to the same
\* prompt again and changes no selection; the loop is left only with the
\* URL of one of the listed variants selected.
C12_PromptStep ==
    \/ /\ pc' = pc
       /\ playlists' = playlists
       /\ gui_selected' = gui_selected
       /\ selected_playlist_url' = selected_playlist_url
    \/ /\ pc = "gui_prompt"
       /\ pc' = "gui_outfile"
       /\ \E c \in 1..Len(playlists) : gui_selected' = playlists[c][2]
    \/ /\ pc = "main_prompt"
       /\ pc' = "main_fetch_playlist"
       /\ \E c \in 1..Len(playlists) : selected_playlist_url' = playlists[c][2]

C12_PromptLoop ==
    [][(pc \in {"gui_prompt", "main_prompt"}) => C12_PromptStep]_vars

\* ------------------------------------------------------------------------
\* The subtitle converter alone: vtt_to_srt applied to small texts, and to
\* its own output
\* ------------------------------------------------------------------------
VttToks == {WebVtt, NL, Arrow, "Hello"}

VttTexts == UNION {[1..n -> VttToks] : n \in 0..MaxVttLen}

InitVtt ==
    /\ argv = <<MasterUrl>>
    /\ pc = "convert"
    /\ error = <<>>
    /\ invalid = 0
    /\ gui_url = <<>>
    /\ gui_selected = <<>>
    /\ m3u8_url = MasterUrl
    /\ output_file = DefaultName
    /\ master_content = <<>>
    /\ playlists = <<>>
    /\ subtitle_urls = <<SubUrl>>
    /\ selected_playlist_url = <<>>
    /\ segments = <<>>
    /\ temp_ts = "none"
    /\ sub_file = "none"
    /\ vtt_text \in VttTexts
    /\ srt_text = <<>>
    /\ f = <<>>
    /\ written = 0
    /\ job = <<>>
    /\ lock = 0
    /\ progress = 0
    /\ reports = <<>>
    /\ cancel_next = 0
    /\ ffmpeg = <<>>
    /\ output = "none"

\* srt_text = vtt_to_srt(vtt_text)
Convert ==
    /\ pc = "convert"
    /\ srt_text' = vtt_to_srt(vtt_text)
    /\ pc' = "converted"
    /\ UNCHANGED <<error, segments, f, written, cancel_next, temp_ts, sub_file,
                   vtt_text, ffmpeg, output>>
    /\ UNCHANGED <<FlowVars, PoolVars>>

\* The output is converted once more
ConvertAgain ==
    /\ pc = "converted"
    /\ vtt_text' = srt_text
    /\ srt_text' = vtt_to_srt(srt_text)
    /\ pc' = "converted_again"
    /\ UNCHANGED <<error, segments, f, written, cancel_next, temp_ts, sub_file,
                   ffmpeg, output>>
    /\ UNCHANGED <<FlowVars, PoolVars>>

NextVtt == Convert \/ ConvertAgain

SpecVtt == InitVtt /\ [][NextVtt]_vars

\* C13: vtt_to_srt applied to its own output returns it unchanged.
C13_Idempotent ==
    pc = "converted_again" => srt_text = vtt_text

\* ------------------------------------------------------------------------
\* The downloads alone, for a media playlist with more segments than
\* workers
\* ------------------------------------------------------------------------
\* The segments whose requests the origin can fail
PoolFlaky == {1}

InitPool ==
    /\ argv = <<HiUrl>>
    /\ pc = "pool"
    /\ error = <<>>
    /\ invalid = 0
    /\ gui_url = <<>>
    /\ gui_selected = <<>>
    /\ m3u8_url = HiUrl
    /\ output_file = DefaultName
    /\ master_content = MediaText(PoolSegs)
    /\ playlists = <<>>
    /\ subtitle_urls = <<>>
    /\ selected_playlist_url = <<>>
    /\ segments = parse_segments(MediaText(PoolSegs), HiUrl)
    /\ temp_ts = "exists"
    /\ sub_file = "none"
    /\ vtt_text = <<>>
    /\ srt_text = <<>>
    /\ f = <<>>
    /\ written = 0
    /\ job = [i \in 1..PoolSegs |-> NewJob]
    /\ lock = 0
    /\ progress = 0
    /\ reports = <<>>
    /\ cancel_next = 0
    /\ ffmpeg = <<>>
    /\ output = "none"

NextPool ==
    \/ \E i \in Segs : Start(i)
    \/ \E i \in Segs : FetchOk(i)
    \/ \E i \in Segs : i \in PoolFlaky /\ FetchFail(i)
    \/ \E i \in Segs : Wake(i)
    \/ \E i \in Segs : Acquire(i)
    \/ \E i \in Segs : Track(i)
    \/ WriteNext
    \/ RaiseNext
    \/ CancelNext
    \/ ShutdownJoined
    \/ PoolExit

SpecPool == InitPool /\ [][NextPool]_vars

\* The downloads that are being fetched or sleeping in backoff
InFlight == {i \in Segs : job[i].st \in {"get", "sleep"}}

\* The buffers that were fetched and are not written to temp_ts yet
Held == {i \in Segs : i > written /\ job[i].st \in {"fetched", "locked", "done"}}

\* C14: at most max_workers (8) downloads are being fetched or sleeping in
\* backoff at any moment, also with more than 8 segments.
C14_AtMostEightInFlight ==
    Cardinality(InFlight) <= max_workers

\* More segments than workers: 8 downloads are in flight, one of them asleep
\* after a failed attempt, and the ninth waits in the queue
C14_Witness ==
    /\ Len(job) > max_workers
    /\ Cardinality(InFlight) = max_workers
    /\ \E i \in Segs : job[i].st = "sleep"
    /\ \E i \in Segs : job[i].st = "pending"

\* C15: the buffers fetched but not yet written plus the downloads in flight
\* are at most 8 at any moment, whatever the number of segments and whichever
\* segment is slow.
C15_BuffersWithinWindow ==
    Cardinality(Held) + Cardinality(InFlight) <= max_workers

C16_Step ==
    /\ (\E i \in Segs : job[i].st = "failed") =>
          \A j \in Segs : ~(job[j].st = "pending" /\ job'[j].st = "get")
    /\ pc \in {"cancel", "shutdown", "error"} => error' = error

\* C16: once a segment has exhausted its retries no queued download is
\* started any more, and the run ends with one error, which nothing
\* replaces.
C16_NoStartAfterExhaustion ==
    [][C16_Step]_vars

\* Every job has succeeded, has failed or was cancelled
AllJobsSettled ==
    \A i \in Segs : job[i].st \in {"done", "failed", "cancelled"}

\* The acquisition is over: either every segment was written in order, or
\* the error of a failed segment has left main
AcquisitionEnded ==
    /\ pc \in {"subs", "error"}
    /\ AllJobsSettled
    /\ pc = "subs" =>
          /\ written = Len(segments)
          /\ f = SequentialStream(Len(segments))
          /\ error = <<>>
    /\ pc = "error" =>
          /\ error = "RequestException"
          /\ \E i \in Segs : job[i].st = "failed"

\* C17: when every request returns, the acquisition ends, with all segments
\* written in order or with the error of a failed segment, and every job has
\* then succeeded, failed or been cancelled.
C17_AcquisitionTerminates ==
    (pc = "pool") ~> AcquisitionEnded

\* The acquisition was aborted: the first segment was written, the second
\* one failed and the third one was cancelled in the queue
C17_Witness ==
    /\ pc = "error"
    /\ Len(job) = NumSegs
    /\ written = 1
    /\ job[2].st = "failed"
    /\ job[NumSegs].st = "cancelled"
    /\ AcquisitionEnded

\* The delays slept after k failed attempts that were followed by a sleep
LinearDelays(k) == [a \in 1..k |-> a * backoff]

UserUrl == IF argv = <<>> THEN gui_url ELSE argv[1]

\* C19: when the URL that the user gave, as an argument or at the prompt, is
\* that of a master playlist that declares a subtitle track, a run that ends
\* well has fetched the first declared track, converted it and passed the
\* converted file to ffmpeg.
C19_SubtitlesInBothModes ==
    (/\ pc = "done"
     /\ UserUrl \in TextUrls
     /\ is_master_playlist(Served(UserUrl))
     /\ find_subtitles(Served(UserUrl), UserUrl) # <<>>) =>
        /\ vtt_text = Served(find_subtitles(Served(UserUrl), UserUrl)[1])
        /\ srt_text = vtt_to_srt(vtt_text)
        /\ ffmpeg = << <<"temp_ts", "sub_file">> >>

====
